---- MODULE Spec2Model ----
(***************************************************************************)
(* Frame-analysis pipeline of LivenessDetector.tsx: skin-colour scoring,   *)
(* region aggregation, orientation estimate, temporal smoothing, and the   *)
(* component state the pipeline writes (displayed result, rolling window,  *)
(* detection history).                                                     *)
(*                                                                         *)
(* Numbers.  JavaScript numbers are modelled as exact rationals            *)
(* [n |-> numerator, d |-> denominator] in lowest terms with d > 0, plus   *)
(* the two IEEE specials the code can produce by dividing by zero: NaN     *)
(* (0/0) and +Infinity (x/0, x > 0).  Rounding of IEEE doubles is not      *)
(* modelled.  Math.exp is modelled in fixed point, in thousandths.         *)
(* Skin scores 0, 0.7, 0.8, 0.9 are kept in tenths (0, 7, 8, 9).           *)
(***************************************************************************)
EXTENDS Integers, Sequences, FiniteSets, TLC

\* ------------------------------------------------------------------------
\* Program constants
\* ------------------------------------------------------------------------
SampleStride == 2
MinSkinPixels == 50
MinClusterPixels == 100
BandOffset == 20
WindowMs == 500
DetectInterval == 100
HistoryKeep == 9

\* ------------------------------------------------------------------------
\* Bounds of the model
\* ------------------------------------------------------------------------
\* the clock advances in steps of TickMs milliseconds
TickMs == 100
\* number of clock steps explored by each specification
MaxTicks == 5
MaxTicksFrames == 1
MaxTicksSteady == 6
MaxTicksSmoother == 6
MaxTicksHistory == 11
MaxTicksTies == 1
MaxWindow == 3

\* ------------------------------------------------------------------------
\* JavaScript numbers
\* ------------------------------------------------------------------------
Abs(i) == IF i < 0 THEN -i ELSE i
Max2(a, b) == IF a > b THEN a ELSE b
Min2(a, b) == IF a < b THEN a ELSE b

RECURSIVE Gcd(_, _)
Gcd(a, b) == IF b = 0 THEN a ELSE Gcd(b, a % b)

NaN == [n |-> 0, d |-> 0]
Infinity == [n |-> 1, d |-> 0]
IsNaN(a) == a.d = 0 /\ a.n = 0
IsFinite(a) == a.d > 0

\* the rational n/d, d > 0, in lowest terms
Rat(n, d) ==
    LET g == Gcd(Abs(n), d) IN [n |-> n \div g, d |-> d \div g]

Num(i) == [n |-> i, d |-> 1]

\* a / b as JavaScript evaluates it, for a >= 0 and b >= 0
NumDiv(a, b) ==
    IF IsNaN(a) \/ IsNaN(b) THEN NaN
    ELSE IF ~IsFinite(a) THEN (IF IsFinite(b) THEN Infinity ELSE NaN)
    ELSE IF ~IsFinite(b) THEN Num(0)
    ELSE IF b.n = 0 THEN (IF a.n = 0 THEN NaN ELSE Infinity)
    ELSE LET g1 == Gcd(Abs(a.n), b.n)
             g2 == Gcd(a.d, b.d)
         IN  Rat((a.n \div g1) * (b.d \div g2), (a.d \div g2) * (b.n \div g1))

\* a + b, for a >= 0 and b >= 0
NumAdd(a, b) ==
    IF IsNaN(a) \/ IsNaN(b) THEN NaN
    ELSE IF ~IsFinite(a) \/ ~IsFinite(b) THEN Infinity
    ELSE LET g == Gcd(a.d, b.d)
             l == (a.d \div g) * b.d
         IN  Rat(a.n * (l \div a.d) + b.n * (l \div b.d), l)

\* |a - b| for finite a, b
NumAbsDiff(a, b) ==
    LET g == Gcd(a.d, b.d)
        l == (a.d \div g) * b.d
    IN  Rat(Abs(a.n * (l \div a.d) - b.n * (l \div b.d)), l)

\* a * b for finite a, b
NumMul(a, b) ==
    LET g1 == Gcd(Abs(a.n), b.d)
        g2 == Gcd(Abs(b.n), a.d)
    IN  Rat((a.n \div g1) * (b.n \div g2), (a.d \div g2) * (b.d \div g1))

\* a < b and a > b: every comparison with NaN is false
NumLt(a, b) ==
    /\ ~IsNaN(a) /\ ~IsNaN(b)
    /\ IF ~IsFinite(a) THEN FALSE
       ELSE IF ~IsFinite(b) THEN TRUE
       ELSE LET g == Gcd(a.d, b.d)
            IN  a.n * (b.d \div g) < b.n * (a.d \div g)
NumGt(a, b) == NumLt(b, a)

\* Math.min(a, b): NaN if either argument is NaN
NumMin(a, b) ==
    IF IsNaN(a) \/ IsNaN(b) THEN NaN
    ELSE IF NumLt(b, a) THEN b ELSE a

RECURSIVE SumFn(_, _, _)
\* f[lo] + ... + f[hi]
SumFn(f, lo, hi) ==
    IF lo > hi THEN 0
    ELSE IF lo = hi THEN f[lo]
    ELSE LET mid == (lo + hi) \div 2
         IN  SumFn(f, lo, mid) + SumFn(f, mid + 1, hi)

\* ------------------------------------------------------------------------
\* getSkinColorConfidence: the score in tenths (0, 7, 8 or 9)
\* ------------------------------------------------------------------------
Max3(r, g, b) == Max2(r, Max2(g, b))
Min3(r, g, b) == Min2(r, Min2(g, b))

RgbScore(r, g, b) ==
    IF /\ r > 95 /\ g > 40 /\ b > 20
       /\ Max3(r, g, b) - Min3(r, g, b) > 15
       /\ Abs(r - g) > 15 /\ r > g /\ r > b
    THEN 8 ELSE 0

\* y, cb, cr in thousandths
YcbcrScore(r, g, b) ==
    LET y  == 299 * r + 587 * g + 114 * b
        cb == 128000 + 500 * b - 169 * r - 331 * g
        cr == 128000 + 500 * r - 419 * g - 81 * b
    IN  IF /\ y > 80000
           /\ cb >= 77000 /\ cb <= 127000
           /\ cr >= 133000 /\ cr <= 173000
        THEN 9 ELSE 0

\* the hue is hn / span degrees (0 when max = min), s = span / max, v = max / 255
HsvScore(r, g, b) ==
    LET max  == Max3(r, g, b)
        min  == Min3(r, g, b)
        span == max - min
        h0   == IF span = 0 THEN 0
                ELSE IF max = r THEN (g - b) * 60
                ELSE IF max = g THEN (2 * span + (b - r)) * 60
                ELSE (4 * span + (r - g)) * 60
        hd   == IF span = 0 THEN 1 ELSE span
        hn   == IF h0 < 0 THEN h0 + 360 * hd ELSE h0
        sOk  == IF max = 0 THEN FALSE
                ELSE 100 * span >= 23 * max /\ 100 * span <= 68 * max
    IN  IF /\ hn >= 0 /\ hn <= 50 * hd
           /\ sOk
           /\ 100 * max >= 35 * 255 /\ 100 * max <= 95 * 255
        THEN 7 ELSE 0

getSkinColorConfidenceSum(r, g, b) ==
    RgbScore(r, g, b) + YcbcrScore(r, g, b) + HsvScore(r, g, b)

getSkinColorConfidence(r, g, b) ==
    Max3(RgbScore(r, g, b), YcbcrScore(r, g, b), HsvScore(r, g, b))

\* NumLe, NumSub for finite numbers
NumLe(a, b) == ~IsNaN(a) /\ ~IsNaN(b) /\ ~NumLt(b, a)
NumSub(a, b) ==
    LET g == Gcd(a.d, b.d)
        l == (a.d \div g) * b.d
    IN  Rat(a.n * (l \div a.d) - b.n * (l \div b.d), l)

\* ------------------------------------------------------------------------
\* Image data.  A frame is a background colour with rectangles painted over
\* it in order; colours are <<r, g, b>> byte triples.
\* ------------------------------------------------------------------------
Black == <<0, 0, 0>>
White == <<255, 255, 255>>
Grey == <<30, 30, 30>>
Skin == <<200, 150, 120>>
\* a colour that only the RGB heuristic accepts (score 0.8)
Ruddy == <<200, 60, 50>>

Rect(x, y, w, h, c) == [x |-> x, y |-> y, w |-> w, h |-> h, colour |-> c]
Frame(w, h, bg, rects) == [width |-> w, height |-> h, bg |-> bg, rects |-> rects]

RECURSIVE ColourIn(_, _, _, _, _)
\* colour of the topmost of the first k rectangles covering (x, y)
ColourIn(rects, k, bg, x, y) ==
    IF k = 0 THEN bg
    ELSE LET q == rects[k]
         IN  IF x >= q.x /\ x < q.x + q.w /\ y >= q.y /\ y < q.y + q.h
             THEN q.colour
             ELSE ColourIn(rects, k - 1, bg, x, y)

\* data[index], data[index + 1], data[index + 2] for index = (y * width + x) * 4
PixelAt(frame, x, y) == ColourIn(frame.rects, Len(frame.rects), frame.bg, x, y)

\* Pass 1: the stride-2 samples scoring above 0.3
SkinPixels(frame) ==
    LET xs == {x \in 0 .. frame.width - 1 : x % SampleStride = 0}
        ys == {y \in 0 .. frame.height - 1 : y % SampleStride = 0}
        score(x, y) == LET c == PixelAt(frame, x, y)
                       IN  getSkinColorConfidence(c[1], c[2], c[3])
    IN  { [x |-> p[1], y |-> p[2], intensity |-> score(p[1], p[2])] :
            p \in {q \in xs \X ys : score(q[1], q[2]) > 3} }

SetMin(S) == CHOOSE a \in S : \A b \in S : a <= b
SetMax(S) == CHOOSE a \in S : \A b \in S : a >= b

\* sum of the intensities in tenths, sum of x, sum of y
SumIntensity(pixels) ==
    SumFn([k \in 0 .. 10 |-> k * Cardinality({p \in pixels : p.intensity = k})], 0, 10)
SumXs(pixels) ==
    IF pixels = {} THEN 0
    ELSE LET hi == SetMax({p.x : p \in pixels})
         IN  SumFn([k \in 0 .. hi |-> k * Cardinality({p \in pixels : p.x = k})], 0, hi)
SumYs(pixels) ==
    IF pixels = {} THEN 0
    ELSE LET hi == SetMax({p.y : p \in pixels})
         IN  SumFn([k \in 0 .. hi |-> k * Cardinality({p \in pixels : p.y = k})], 0, hi)

\* the list of clusters: empty, or the one cluster of all skin pixels
clusterSkinPixels(skinPixels, width, height) ==
    IF Cardinality(skinPixels) = 0 THEN << >>
    ELSE LET len == Cardinality(skinPixels)
             avgIntensity == Rat(SumIntensity(skinPixels), 10 * len)
             xs == {p.x : p \in skinPixels}
             ys == {p.y : p \in skinPixels}
         IN  << [ centerX |-> Rat(SumXs(skinPixels), len),
                  centerY |-> Rat(SumYs(skinPixels), len),
                  width |-> SetMax(xs) - SetMin(xs),
                  height |-> SetMax(ys) - SetMin(ys),
                  confidence |-> NumMin(NumMul(avgIntensity, Rat(len, 200)), Num(1)),
                  pixels |-> skinPixels ] >>

PrimaryClustersInclusive(clusters) ==
    SelectSeq(clusters, LAMBDA c : Cardinality(c.pixels) >= MinClusterPixels)

\* clusters.find(cluster => cluster.pixels.length > 100): the matches, in order
PrimaryClusters(clusters) ==
    SelectSeq(clusters, LAMBDA c : Cardinality(c.pixels) > MinClusterPixels)

\* the side bands of a region and the two ratios computed from them; a
\* ratio is NaN when its denominator is 0
Bands(faceRegion) ==
    LET centerX == faceRegion.centerX
        pixels == faceRegion.pixels
        leftPixels == {p \in pixels : NumLt(Num(p.x), NumSub(centerX, Num(BandOffset)))}
        rightPixels == {p \in pixels : NumGt(Num(p.x), NumAdd(centerX, Num(BandOffset)))}
        leftDensity == Cardinality(leftPixels)
        rightDensity == Cardinality(rightPixels)
        leftIntensity == Rat(SumIntensity(leftPixels), 10 * Max2(leftDensity, 1))
        rightIntensity == Rat(SumIntensity(rightPixels), 10 * Max2(rightDensity, 1))
    IN  [leftDensity |-> leftDensity,
         rightDensity |-> rightDensity,
         centerDensity |->
             Cardinality({p \in pixels :
                             NumLe(NumAbsDiff(Num(p.x), centerX), Num(BandOffset))}),
         leftIntensity |-> leftIntensity,
         rightIntensity |-> rightIntensity,
         densityRatio |-> NumDiv(Num(Abs(leftDensity - rightDensity)),
                                 Num(leftDensity + rightDensity)),
         intensityRatio |-> NumDiv(NumAbsDiff(leftIntensity, rightIntensity),
                                   NumAdd(leftIntensity, rightIntensity))]

\* asymmetryScore of a region; NaN when both side bands are empty
AsymmetryScore(faceRegion) ==
    LET b == Bands(faceRegion)
    IN  NumDiv(NumAdd(b.densityRatio, b.intensityRatio), Num(2))

detectFaceOrientationNoDefault(faceRegion) ==
    LET b == Bands(faceRegion)
        asymmetryScore == AsymmetryScore(faceRegion)
    IN  IF /\ NumLt(asymmetryScore, Rat(15, 100))
           /\ 2 * b.centerDensity > Max2(b.leftDensity, b.rightDensity)
        THEN "straight"
        ELSE IF b.leftDensity > b.rightDensity THEN "right" ELSE "left"

detectFaceOrientationInclusive(faceRegion) ==
    LET b == Bands(faceRegion)
        asymmetryScore == AsymmetryScore(faceRegion)
    IN  IF /\ NumLt(asymmetryScore, Rat(15, 100))
           /\ 2 * b.centerDensity > Max2(b.leftDensity, b.rightDensity)
        THEN "straight"
        ELSE IF NumLe(Rat(25, 100), asymmetryScore)
        THEN (IF b.leftDensity > b.rightDensity THEN "right" ELSE "left")
        ELSE "straight"

detectFaceOrientationNegated(faceRegion) ==
    LET centerX == faceRegion.centerX
        pixels == faceRegion.pixels
        leftDensity ==
            Cardinality({p \in pixels : NumLt(Num(p.x), NumSub(centerX, Num(BandOffset)))})
        rightDensity ==
            Cardinality({p \in pixels : NumGt(Num(p.x), NumAdd(centerX, Num(BandOffset)))})
        centerDensity ==
            Cardinality({p \in pixels : NumLe(NumAbsDiff(Num(p.x), centerX), Num(BandOffset))})
        asymmetryScore == AsymmetryScore(faceRegion)
    IN  IF /\ NumLt(asymmetryScore, Rat(15, 100))
           /\ 2 * centerDensity > Max2(leftDensity, rightDensity)
        THEN "straight"
        ELSE IF ~NumLe(asymmetryScore, Rat(25, 100))
        THEN (IF leftDensity > rightDensity THEN "right" ELSE "left")
        ELSE "straight"

detectFaceOrientation(faceRegion) ==
    LET centerX == faceRegion.centerX
        pixels == faceRegion.pixels
        leftDensity ==
            Cardinality({p \in pixels : NumLt(Num(p.x), NumSub(centerX, Num(BandOffset)))})
        rightDensity ==
            Cardinality({p \in pixels : NumGt(Num(p.x), NumAdd(centerX, Num(BandOffset)))})
        centerDensity ==
            Cardinality({p \in pixels : NumLe(NumAbsDiff(Num(p.x), centerX), Num(BandOffset))})
        asymmetryScore == AsymmetryScore(faceRegion)
    IN  IF /\ NumLt(asymmetryScore, Rat(15, 100))
           /\ 2 * centerDensity > Max2(leftDensity, rightDensity)
        THEN "straight"
        ELSE IF NumGt(asymmetryScore, Rat(25, 100))
        THEN (IF leftDensity > rightDensity THEN "right" ELSE "left")
        ELSE "straight"

\* ------------------------------------------------------------------------
\* The frames fed to the pipeline
\* ------------------------------------------------------------------------
\* the 40x40 skin block of the 100x100 end-to-end scenario, left of centre
BlockXs == {0, 7, 20, 29}
BlockYs == {0, 33, 60}
BlockFrame(x, y) == Frame(100, 100, Grey, <<Rect(x, y, 40, 40, Skin)>>)
BlockFrames == {BlockFrame(x, y) : x \in BlockXs, y \in BlockYs}

BlackFrame == Frame(100, 100, Black, << >>)
WhiteFrame == Frame(100, 100, White, << >>)
ZeroWidthFrame == Frame(0, 100, Skin, << >>)
ZeroHeightFrame == Frame(100, 0, Skin, << >>)
\* 49, 50 and 100 skin samples
Sparse49Frame == Frame(100, 100, Grey, <<Rect(0, 0, 14, 14, Skin)>>)
Sparse50Frame == Frame(100, 100, Grey, <<Rect(0, 0, 20, 10, Skin)>>)
Sparse100Frame == Frame(100, 100, Grey, <<Rect(0, 0, 20, 20, Skin)>>)
\* a one-row strip of 101 skin samples
StripFrame == Frame(202, 1, Skin, << >>)
\* a dense column with a thin tail to one side
TailRightFrame == Frame(100, 100, Grey, <<Rect(0, 0, 10, 40, Ruddy), Rect(10, 0, 90, 2, Skin)>>)
TailLeftFrame == Frame(100, 100, Grey, <<Rect(90, 0, 10, 40, Skin), Rect(0, 0, 90, 2, Ruddy)>>)
WideTailFrame == Frame(100, 100, Grey, <<Rect(0, 0, 20, 100, Skin), Rect(20, 0, 80, 2, Skin)>>)
\* two skin tones side by side
TwoToneFrame == Frame(100, 100, Grey, <<Rect(0, 0, 100, 8, Skin), Rect(0, 0, 20, 8, Ruddy)>>)
FullSkinFrame == Frame(100, 100, Skin, << >>)
\* two equal columns with nothing between them
TwinColumnsFrame ==
    Frame(100, 100, Grey, <<Rect(0, 0, 20, 12, Skin), Rect(80, 0, 20, 12, Skin)>>)
\* two unequal columns: asymmetryScore 0.15, 10/51 and 0.25
LowerEdgeFrame ==
    Frame(100, 100, Grey, <<Rect(0, 0, 10, 28, Skin), Rect(90, 0, 10, 52, Skin)>>)
DeadZoneFrame ==
    Frame(100, 100, Grey, <<Rect(0, 0, 10, 20, Skin), Rect(90, 0, 10, 40, Ruddy)>>)
UpperEdgeFrame ==
    Frame(100, 100, Grey, <<Rect(0, 0, 2, 100, Skin), Rect(94, 0, 6, 100, Skin)>>)
\* two unequal columns of different tones: asymmetryScore 19/68
HeavyLeftFrame ==
    Frame(100, 100, Grey, <<Rect(0, 0, 6, 100, Skin), Rect(98, 0, 2, 100, Ruddy)>>)
HeavyRightFrame ==
    Frame(100, 100, Grey, <<Rect(0, 0, 2, 100, Ruddy), Rect(94, 0, 6, 100, Skin)>>)

FailingFrames ==
    {BlackFrame, WhiteFrame, ZeroWidthFrame, ZeroHeightFrame,
     Sparse49Frame, Sparse50Frame, Sparse100Frame}
FaceFrames ==
    {StripFrame, TailRightFrame, TailLeftFrame, WideTailFrame, TwoToneFrame, FullSkinFrame,
     TwinColumnsFrame, LowerEdgeFrame, DeadZoneFrame, UpperEdgeFrame,
     HeavyLeftFrame, HeavyRightFrame}
AllFrames == FailingFrames \cup FaceFrames \cup BlockFrames

\* the frames of the video stream
StreamFrames ==
    {BlackFrame, ZeroWidthFrame, Sparse50Frame, StripFrame, TailRightFrame, TailLeftFrame}

\* the frames of a stream that settles on one picture
SteadyFrames == {TailRightFrame, StripFrame, BlockFrame(7, 33)}

NoFrame == Frame(0, 0, Black, << >>)

\* ------------------------------------------------------------------------
\* detectFaceInImageData, passes 1 to 4: the instantaneous estimate
\* ------------------------------------------------------------------------
NoDetection == [orientation |-> "none", confidence |-> Num(0)]
\* the bands of a frame in which no region was found
NoBands ==
    [leftDensity |-> 0, rightDensity |-> 0, centerDensity |-> 0,
     leftIntensity |-> Num(0), rightIntensity |-> Num(0),
     densityRatio |-> NaN, intensityRatio |-> NaN]

AnalyseFrame(frame) ==
    LET skinPixels == SkinPixels(frame)
        clusters == clusterSkinPixels(skinPixels, frame.width, frame.height)
        primary == PrimaryClusters(clusters)
        none == [skinCount |-> Cardinality(skinPixels), regions |-> 0, regionPixels |-> 0,
                 faceDetected |-> FALSE, inst |-> NoDetection, asymmetry |-> NaN,
                 bands |-> NoBands]
    IN  IF Cardinality(skinPixels) < MinSkinPixels THEN none
        ELSE IF Len(primary) = 0 THEN none
        ELSE [skinCount |-> Cardinality(skinPixels),
              regions |-> Len(clusters),
              regionPixels |-> Cardinality(primary[1].pixels),
              faceDetected |-> TRUE,
              inst |-> [orientation |-> detectFaceOrientation(primary[1]),
                        confidence |-> NumMin(primary[1].confidence, Num(1))],
              asymmetry |-> AsymmetryScore(primary[1]),
              bands |-> Bands(primary[1])]

\* the analysis of every frame of the catalogue
Analysis == [f \in AllFrames |-> AnalyseFrame(f)]

\* ------------------------------------------------------------------------
\* temporalSmoothing
\* ------------------------------------------------------------------------
Orientations == {"straight", "left", "right", "none"}
\* key order of the orientationScores object literal
OrientationOrder == <<"straight", "left", "right", "none">>

\* Math.exp(-age / 200) in thousandths, age in milliseconds: a table in
\* steps of 50 ms, a cubic Taylor factor for the remainder, and
\* exp(-2.5) = 0.082 for every further 500 ms
ExpTable == <<1000, 779, 607, 472, 368, 287, 223, 174, 135, 105>>
RECURSIVE ExpWeight(_)
ExpWeight(age) ==
    IF age >= 500 THEN (ExpWeight(age - 500) * 82 + 500) \div 1000
    ELSE LET r == age % 50
             frac == 1000 - 5 * r + (r * r) \div 80 - (r * r * r) \div 48000
         IN  (ExpTable[(age \div 50) + 1] * frac + 500) \div 1000

FreshInclusive(d, t) == t - d.timestamp <= WindowMs
FreshNever(d, t) == TRUE
FreshLong(d, t) == t - d.timestamp < 2 * WindowMs
FreshOlder(d, t) == t - d.timestamp < WindowMs /\ t - d.timestamp > 0

\* the eviction test of the filter
Fresh(d, t) == t - d.timestamp < WindowMs

\* weights[i], in thousandths
Weight(d, t) == ExpWeight(t - d.timestamp)

RECURSIVE SumInts(_, _)
\* s[1] + ... + s[k]
SumInts(s, k) == IF k = 0 THEN 0 ELSE SumInts(s, k - 1) + s[k]

RECURSIVE CommonDenominator(_, _)
\* least common denominator of the confidences of window[1 .. k]
CommonDenominator(window, k) ==
    IF k = 0 THEN 1
    ELSE LET l == CommonDenominator(window, k - 1)
             d == window[k].confidence.d
         IN  (l \div Gcd(l, d)) * d

ScoreOfUnweighted(window, t, den, o) ==
    SumInts([i \in 1 .. Len(window) |->
                IF window[i].orientation = o THEN Weight(window[i], t) * den ELSE 0],
            Len(window))

\* the sum of weights[i] * d.confidence over the entries of orientation o,
\* in units of 1 / (1000 * den)
ScoreOf(window, t, den, o) ==
    SumInts([i \in 1 .. Len(window) |->
                IF window[i].orientation = o
                THEN Weight(window[i], t)
                         * (window[i].confidence.n * (den \div window[i].confidence.d))
                ELSE 0],
            Len(window))

\* orientationScores after the forEach
OrientationScores(window, t, den) ==
    [straight |-> ScoreOf(window, t, den, "straight"),
     left |-> ScoreOf(window, t, den, "left"),
     right |-> ScoreOf(window, t, den, "right"),
     none |-> ScoreOf(window, t, den, "none")]

RECURSIVE ReduceBest(_, _, _)
RECURSIVE ReduceBestFlipped(_, _, _)
RECURSIVE ReduceBestFirst(_, _, _)
ReduceBestFlipped(scores, a, k) ==
    IF k > Len(OrientationOrder) THEN a
    ELSE LET b == OrientationOrder[k]
         IN  ReduceBestFlipped(scores, IF scores[a] < scores[b] THEN a ELSE b, k + 1)

ReduceBestFirst(scores, a, k) ==
    IF k > Len(OrientationOrder) THEN a
    ELSE LET b == OrientationOrder[k]
         IN  ReduceBestFirst(scores, IF scores[a] >= scores[b] THEN a ELSE b, k + 1)

\* Object.entries(orientationScores).reduce((a, b) => score[a] > score[b] ? a : b)
ReduceBest(scores, a, k) ==
    IF k > Len(OrientationOrder) THEN a
    ELSE LET b == OrientationOrder[k]
         IN  ReduceBest(scores, IF scores[a] > scores[b] THEN a ELSE b, k + 1)

BestOrientation(scores) == ReduceBest(scores, OrientationOrder[1], 2)

temporalSmoothingPushLast(window, orientation, confidence, t) ==
    LET kept == SelectSeq(window, LAMBDA d : Fresh(d, t))
        den == CommonDenominator(kept, Len(kept))
        totalWeight == SumInts([i \in 1 .. Len(kept) |-> Weight(kept[i], t)], Len(kept))
        orientationScores == OrientationScores(kept, t, den)
        bestOrientation == BestOrientation(orientationScores)
        smoothedConfidence ==
            NumDiv(Num(orientationScores[bestOrientation]), Num(totalWeight * den))
    IN  [window |-> Append(kept, [orientation |-> orientation,
                                  confidence |-> confidence, timestamp |-> t]),
         orientation |-> bestOrientation,
         confidence |-> NumMin(smoothedConfidence, Num(1))]

temporalSmoothingWinnerWeight(window, orientation, confidence, t) ==
    LET pushed == Append(window, [orientation |-> orientation,
                                  confidence |-> confidence, timestamp |-> t])
        kept == SelectSeq(pushed, LAMBDA d : Fresh(d, t))
        den == CommonDenominator(kept, Len(kept))
        orientationScores == OrientationScores(kept, t, den)
        bestOrientation == BestOrientation(orientationScores)
        winnerWeight ==
            SumInts([i \in 1 .. Len(kept) |->
                        IF kept[i].orientation = bestOrientation
                        THEN Weight(kept[i], t) ELSE 0], Len(kept))
        smoothedConfidence ==
            NumDiv(Num(orientationScores[bestOrientation]), Num(winnerWeight * den))
    IN  [window |-> kept,
         orientation |-> bestOrientation,
         confidence |-> NumMin(smoothedConfidence, Num(1))]

\* the new rolling window and the returned {orientation, confidence}
temporalSmoothing(window, orientation, confidence, t) ==
    LET pushed == Append(window, [orientation |-> orientation,
                                  confidence |-> confidence, timestamp |-> t])
        kept == SelectSeq(pushed, LAMBDA d : Fresh(d, t))
        den == CommonDenominator(kept, Len(kept))
        totalWeight == SumInts([i \in 1 .. Len(kept) |-> Weight(kept[i], t)], Len(kept))
        orientationScores == OrientationScores(kept, t, den)
        bestOrientation == BestOrientation(orientationScores)
        smoothedConfidence ==
            NumDiv(Num(orientationScores[bestOrientation]), Num(totalWeight * den))
    IN  [window |-> kept,
         orientation |-> bestOrientation,
         confidence |-> NumMin(smoothedConfidence, Num(1))]

\* ------------------------------------------------------------------------
\* State
\* ------------------------------------------------------------------------
VARIABLES
    now,                \* Date.now(), in milliseconds
    due,                \* earliest time of the next setInterval callback
    recentDetections,   \* the rolling window
    currentOrientation, \* the displayed orientation
    confidence,         \* the displayed confidence
    detectionHistory,   \* the display log
    lastCall            \* the last operation, its inputs and what it returned

vars == <<now, due, recentDetections, currentOrientation, confidence,
          detectionHistory, lastCall>>

\* at: when the call ran; before: length of the rolling window when it began;
\* since: when the current run of identical consecutive calls began
Call(op, frame, faceDetected, inst, result, since) ==
    [op |-> op, frame |-> frame, faceDetected |-> faceDetected,
     inst |-> inst, result |-> result, at |-> now,
     before |-> Len(recentDetections), since |-> since]

Init ==
    /\ now = 0
    /\ due = 0
    /\ recentDetections = << >>
    /\ currentOrientation = "none"
    /\ confidence = Num(0)
    /\ detectionHistory = << >>
    /\ lastCall = Call("init", NoFrame, FALSE, NoDetection, NoDetection, 0)

SliceLastAll(s, k) == s

\* prev.slice(-k)
SliceLast(s, k) ==
    IF Len(s) <= k THEN s ELSE SubSeq(s, Len(s) - k + 1, Len(s))

RunStart(op, frame, inst) ==
    IF lastCall.op = op /\ lastCall.frame = frame /\ lastCall.inst = inst
    THEN lastCall.since ELSE now

\* ------------------------------------------------------------------------
\* Operations
\* ------------------------------------------------------------------------
NoFaceInserts(frame) ==
    /\ currentOrientation' = "none"
    /\ confidence' = Num(0)
    /\ recentDetections' = Append(recentDetections,
                                  [orientation |-> "none", confidence |-> Num(0),
                                   timestamp |-> now])
    /\ lastCall' = Call("detectFace", frame, FALSE, NoDetection, NoDetection,
                        RunStart("detectFace", frame, NoDetection))
    /\ UNCHANGED detectionHistory

NoFaceKeepsDisplay(frame) ==
    /\ lastCall' = Call("detectFace", frame, FALSE, NoDetection, NoDetection,
                        RunStart("detectFace", frame, NoDetection))
    /\ UNCHANGED <<currentOrientation, confidence, recentDetections, detectionHistory>>

\* detectFaceInImageData when no face region is found; detectFace repeats
\* the two assignments when it sees the false return value
NoFace(frame) ==
    /\ currentOrientation' = "none"
    /\ confidence' = Num(0)
    /\ lastCall' = Call("detectFace", frame, FALSE, NoDetection, NoDetection,
                        RunStart("detectFace", frame, NoDetection))
    /\ UNCHANGED <<recentDetections, detectionHistory>>

\* detectFaceInImageData from the smoothing on, for the estimate inst
FaceFound(frame, inst) ==
    LET smoothed == temporalSmoothing(recentDetections, inst.orientation,
                                      inst.confidence, now)
        result == [orientation |-> smoothed.orientation,
                   confidence |-> smoothed.confidence]
    IN  /\ recentDetections' = smoothed.window
        /\ currentOrientation' = smoothed.orientation
        /\ confidence' = smoothed.confidence
        /\ detectionHistory' =
               Append(SliceLast(detectionHistory, HistoryKeep),
                      [orientation |-> smoothed.orientation,
                       confidence |-> smoothed.confidence,
                       timestamp |-> now])
        /\ lastCall' = Call("detectFace", frame, TRUE, inst, result,
                            RunStart("detectFace", frame, inst))

\* detectFaceInImageData on one frame of image data
DetectFaceInImageData(frame) ==
    IF Analysis[frame].faceDetected
    THEN FaceFound(frame, Analysis[frame].inst)
    ELSE NoFace(frame)

\* the setInterval callback: detectFace on the current video frame; a video
\* of width 0 is not analysed
DetectFace(frame) ==
    /\ now >= due
    /\ due' = now + DetectInterval
    /\ now' = now
    /\ IF frame.width = 0
       THEN UNCHANGED <<recentDetections, currentOrientation, confidence,
                        detectionHistory, lastCall>>
       ELSE DetectFaceInImageData(frame)

\* detectFaceInImageData applied directly to image data of any dimensions
AnalyseImage(frame) ==
    /\ now >= due
    /\ due' = now + DetectInterval
    /\ now' = now
    /\ DetectFaceInImageData(frame)

\* temporalSmoothing applied directly to one detection
Fold(orientation, conf) ==
    /\ now >= due
    /\ due' = now + DetectInterval
    /\ now' = now
    /\ LET smoothed == temporalSmoothing(recentDetections, orientation, conf, now)
           inst == [orientation |-> orientation, confidence |-> conf]
       IN  /\ recentDetections' = smoothed.window
           /\ lastCall' = Call("temporalSmoothing", NoFrame, TRUE, inst,
                               [orientation |-> smoothed.orientation,
                                confidence |-> smoothed.confidence],
                               RunStart("temporalSmoothing", NoFrame, inst))
    /\ UNCHANGED <<currentOrientation, confidence, detectionHistory>>

\* temporalSmoothing applied directly to one detection, any number of times
\* within one millisecond
FoldNow(orientation, conf) ==
    /\ Len(recentDetections) < MaxWindow
    /\ LET smoothed == temporalSmoothing(recentDetections, orientation, conf, now)
           inst == [orientation |-> orientation, confidence |-> conf]
       IN  /\ recentDetections' = smoothed.window
           /\ lastCall' = Call("temporalSmoothing", NoFrame, TRUE, inst,
                               [orientation |-> smoothed.orientation,
                                confidence |-> smoothed.confidence],
                               RunStart("temporalSmoothing", NoFrame, inst))
    /\ UNCHANGED <<now, due, currentOrientation, confidence, detectionHistory>>

\* getSkinColorConfidence applied directly to one pixel
Classify(r, g, b) ==
    /\ lastCall' = [op |-> "getSkinColorConfidence", frame |-> NoFrame,
                    faceDetected |-> FALSE, inst |-> NoDetection,
                    result |-> NoDetection, at |-> now,
                    before |-> Len(recentDetections), since |-> now,
                    args |-> <<r, g, b>>,
                    score |-> getSkinColorConfidence(r, g, b)]
    /\ UNCHANGED <<now, due, recentDetections, currentOrientation, confidence,
                   detectionHistory>>

ResetDetectionClearsWindow ==
    /\ detectionHistory' = << >>
    /\ currentOrientation' = "none"
    /\ confidence' = Num(0)
    /\ recentDetections' = << >>
    /\ lastCall' = Call("resetDetection", NoFrame, FALSE, NoDetection, NoDetection, now)
    /\ UNCHANGED <<now, due>>

\* resetDetection: the three setters; the recentDetections ref is not touched
ResetDetection ==
    /\ detectionHistory' = << >>
    /\ currentOrientation' = "none"
    /\ confidence' = Num(0)
    /\ lastCall' = Call("resetDetection", NoFrame, FALSE, NoDetection, NoDetection, now)
    /\ UNCHANGED <<now, due, recentDetections>>

\* the clock advances
Tick(limit) ==
    /\ now < limit * TickMs
    /\ now' = now + TickMs
    /\ UNCHANGED <<due, recentDetections, currentOrientation, confidence,
                   detectionHistory, lastCall>>

\* ------------------------------------------------------------------------
\* Specifications
\* ------------------------------------------------------------------------
\* a detection stream: frames, resets and the passage of time
Next ==
    \/ \E f \in StreamFrames : DetectFace(f)
    \/ ResetDetection
    \/ Tick(MaxTicks)

Spec == Init /\ [][Next]_vars

\* the frame analysis applied to every frame of the catalogue
NextFrames ==
    \/ \E f \in AllFrames : AnalyseImage(f)
    \/ Tick(MaxTicksFrames)

SpecFrames == Init /\ [][NextFrames]_vars

\* a stream that settles on one picture
NextSteady ==
    \/ \E f \in SteadyFrames : DetectFace(f)
    \/ Tick(MaxTicksSteady)

SpecSteady == Init /\ [][NextSteady]_vars

\* the smoother applied to arbitrary detections
SmootherDetections ==
    { [orientation |-> "left", confidence |-> Rat(9, 10)],
      [orientation |-> "left", confidence |-> Rat(1, 2)],
      [orientation |-> "straight", confidence |-> Rat(1, 2)],
      [orientation |-> "right", confidence |-> Num(1)] }

NextSmoother ==
    \/ \E d \in SmootherDetections : Fold(d.orientation, d.confidence)
    \/ Tick(MaxTicksSmoother)

SpecSmoother == Init /\ [][NextSmoother]_vars

\* the smoother applied to detections whose scores can tie
TieDetections ==
    { [orientation |-> "straight", confidence |-> Rat(1, 2)],
      [orientation |-> "left", confidence |-> Rat(1, 2)],
      [orientation |-> "right", confidence |-> Rat(1, 2)],
      [orientation |-> "none", confidence |-> Rat(1, 2)],
      [orientation |-> "left", confidence |-> Num(0)],
      [orientation |-> "left", confidence |-> Num(1)] }

NextTies ==
    \/ \E d \in TieDetections : FoldNow(d.orientation, d.confidence)
    \/ Tick(MaxTicksTies)

SpecTies == Init /\ [][NextTies]_vars

\* the classifier applied to arbitrary pixels
ByteSamples == {0, 30, 50, 60, 70, 92, 120, 150, 200, 255}

NextClassifier ==
    \/ \E r \in ByteSamples, g \in ByteSamples, b \in ByteSamples : Classify(r, g, b)
    \/ Tick(MaxTicksFrames)

SpecClassifier == Init /\ [][NextClassifier]_vars

\* a long stream of one face, with failed frames and resets
HistoryFrames == {StripFrame, BlackFrame}

NextHistory ==
    \/ \E f \in HistoryFrames : DetectFace(f)
    \/ ResetDetection
    \/ Tick(MaxTicksHistory)

SpecHistory == Init /\ [][NextHistory]_vars

TypeOK ==
    /\ now \in Nat /\ due \in Nat
    /\ currentOrientation \in Orientations
    /\ IsFinite(confidence)
    /\ \A i \in 1 .. Len(recentDetections) :
          /\ recentDetections[i].orientation \in Orientations
          /\ IsFinite(recentDetections[i].confidence)
    /\ Len(detectionHistory) <= HistoryKeep + 1

\* ------------------------------------------------------------------------
\* Properties
\* ------------------------------------------------------------------------
Displayed == [orientation |-> currentOrientation, confidence |-> confidence]
Folded == lastCall.op = "temporalSmoothing"
Analysed == lastCall.op = "detectFace"
Classified == lastCall.op = "getSkinColorConfidence"
\* entries the last fold evicted
Evicted == lastCall.before + 1 - Len(recentDetections)
Positive(c) == IsFinite(c) /\ c.n > 0
InUnitInterval(c) == IsFinite(c) /\ c.n >= 0 /\ c.n <= c.d

\* C1: a detection 500 ms old or older at the time of a fold contributes
\* nothing: the fold returns what it returns on the window without those
\* entries, and when every earlier entry is that old it returns the
\* detection just folded in
C1_StaleEntriesContributeNothing ==
    [][ (due' # due /\ lastCall'.op = "temporalSmoothing") =>
          LET young == SelectSeq(recentDetections, LAMBDA d : now' - d.timestamp < 500)
              inst == lastCall'.inst
              r == temporalSmoothing(young, inst.orientation, inst.confidence, now')
          IN  /\ lastCall'.result = [orientation |-> r.orientation,
                                     confidence |-> r.confidence]
              /\ recentDetections' = r.window
              /\ (young = << >> /\ Positive(inst.confidence)) => lastCall'.result = inst
      ]_vars

\* a fold six clock steps after the only earlier detection, of another orientation
C1_Witness ==
    /\ Folded /\ lastCall.at = 6 * TickMs /\ lastCall.before = 1 /\ Evicted = 1
    /\ lastCall.inst.orientation = "straight"
    /\ lastCall.result = lastCall.inst

\* C5: a single detection (o, c), o not none and 0 < c <= 1, folded into an
\* empty window comes back unchanged
C5_SingleDetection ==
    ( /\ Folded /\ lastCall.before = 0
      /\ lastCall.inst.orientation \in {"straight", "left", "right"}
      /\ Positive(lastCall.inst.confidence)
      /\ InUnitInterval(lastCall.inst.confidence) )
    => lastCall.result = lastCall.inst

\* {Left, 0.9} folded into the empty window
C5_Witness ==
    /\ Folded /\ lastCall.before = 0
    /\ lastCall.inst = [orientation |-> "left", confidence |-> Rat(9, 10)]
    /\ recentDetections = <<[orientation |-> "left", confidence |-> Rat(9, 10),
                             timestamp |-> lastCall.at]>>

\* C2 as stated: in every reachable state every entry of the rolling window
\* is less than 500 ms older than the current time
C2_WindowFreshAtAllTimes ==
    \A i \in 1 .. Len(recentDetections) : now - recentDetections[i].timestamp < 500

\* C2, amended: in every reachable state every entry of the rolling window is
\* less than 500 ms older than the newest entry, which carries the time of
\* the latest fold; in the state a successful frame leaves, that time is now
C2_WindowFreshAtLastFold ==
    /\ \A i \in 1 .. Len(recentDetections) :
          /\ recentDetections[Len(recentDetections)].timestamp
                 - recentDetections[i].timestamp < 500
          /\ recentDetections[i].timestamp <= now
    /\ (Analysed /\ lastCall.faceDetected /\ lastCall.at = now)
          => \A i \in 1 .. Len(recentDetections) :
                now - recentDetections[i].timestamp < WindowMs

\* two entries in the window, the older one 500 ms old after a failed frame
C2_Witness ==
    /\ Len(recentDetections) >= 2
    /\ now - recentDetections[1].timestamp >= 500
    /\ Analysed /\ ~lastCall.faceDetected /\ lastCall.at = now

\* C3: a frame with no face region sets the displayed result to none with
\* confidence 0 and leaves the rolling window and the history as they were
C3_FailedFrameTouchesOnlyDisplay ==
    [][ (due' # due /\ lastCall'.op = "detectFace" /\ lastCall'.at = now'
             /\ ~lastCall'.faceDetected)
        => /\ currentOrientation' = "none"
           /\ confidence' = Num(0)
           /\ recentDetections' = recentDetections
           /\ detectionHistory' = detectionHistory
      ]_vars

\* a failed frame right after a displayed detection
C3_Witness ==
    /\ Analysed /\ ~lastCall.faceDetected /\ lastCall.at = now
    /\ currentOrientation = "none"
    /\ Len(recentDetections) = 2
    /\ Len(detectionHistory) = 2
    /\ detectionHistory[2].timestamp = now - TickMs

\* C4: once the same frame, estimated straight with confidence c, has been
\* analysed for 500 ms or longer, every analysis of it returns and displays
\* straight with confidence c
C4_SteadyFrameConverges ==
    ( /\ Analysed /\ lastCall.faceDetected
      /\ lastCall.inst.orientation = "straight"
      /\ lastCall.at - lastCall.since >= 500 )
    => /\ lastCall.result = lastCall.inst
       /\ Displayed = lastCall.inst

\* the strip frame analysed every 100 ms for 500 ms after a left-turned frame
C4_Witness ==
    /\ Analysed /\ lastCall.frame = StripFrame
    /\ lastCall.at - lastCall.since = 5 * TickMs
    /\ lastCall.since = TickMs
    /\ Len(detectionHistory) = 7
    /\ detectionHistory[1].orientation = "left"
    /\ detectionHistory[2].confidence # lastCall.inst.confidence
    /\ Len(recentDetections) = 5

\* C6: image data of any content and dimensions with fewer than 50 skin
\* samples gives no region and the result none with confidence 0
C6_TooFewSamples ==
    (Analysed /\ Analysis[lastCall.frame].skinCount < 50)
    => /\ ~lastCall.faceDetected
       /\ Analysis[lastCall.frame].regions = 0
       /\ lastCall.result = NoDetection
       /\ Displayed = NoDetection

\* image data of width 0 analysed after a frame that showed a face
C6_Witness ==
    /\ Analysed /\ lastCall.frame = ZeroWidthFrame
    /\ Len(detectionHistory) = 1
    /\ Displayed = NoDetection

\* C7 as stated: 50 or more skin samples always give one region and a fold
C7_FiftyIsTheOnlyFloor ==
    (Analysed /\ Analysis[lastCall.frame].skinCount >= 50)
    => /\ lastCall.faceDetected
       /\ Analysis[lastCall.frame].regions = 1

\* C7, amended: more than 100 skin samples give exactly one region, made of
\* all of them, and the frame is estimated and folded into the window; 50 to
\* 100 samples give no region and the result none with confidence 0
C7_HundredIsTheFloor ==
    Analysed =>
      LET a == Analysis[lastCall.frame]
      IN  /\ a.skinCount > 100 =>
                /\ lastCall.faceDetected
                /\ a.regions = 1
                /\ a.regionPixels = a.skinCount
                /\ lastCall.inst.orientation \in {"straight", "left", "right"}
                /\ recentDetections[Len(recentDetections)] =
                       [orientation |-> lastCall.inst.orientation,
                        confidence |-> lastCall.inst.confidence,
                        timestamp |-> lastCall.at]
          /\ (a.skinCount >= 50 /\ a.skinCount <= 100) =>
                /\ ~lastCall.faceDetected
                /\ Displayed = NoDetection

\* a frame of exactly 100 skin samples, after one of 101
C7_Witness ==
    /\ Analysed /\ lastCall.frame = Sparse100Frame
    /\ Analysis[lastCall.frame].skinCount = 100
    /\ Len(recentDetections) = 1
    /\ recentDetections[1].confidence = Rat(909, 2000)

\* C8 as stated: the 40x40 skin block left of centre is estimated left or
\* right, its asymmetryScore being above 0.25
C8_BlockIsTurned ==
    (Analysed /\ lastCall.frame \in BlockFrames)
    => /\ lastCall.inst.orientation \in {"left", "right"}
       /\ NumGt(Analysis[lastCall.frame].asymmetry, Rat(25, 100))

\* C8, amended: the 40x40 skin block left of centre is found as a region and
\* estimated straight, its asymmetryScore not being above 0.25
C8_BlockIsStraight ==
    (Analysed /\ lastCall.frame \in BlockFrames)
    => /\ lastCall.faceDetected
       /\ lastCall.inst.orientation = "straight"
       /\ ~NumGt(Analysis[lastCall.frame].asymmetry, Rat(25, 100))

\* the block at the left edge of the frame
C8_Witness ==
    /\ Analysed /\ lastCall.frame = BlockFrame(0, 33)
    /\ Analysis[lastCall.frame].skinCount = 400
    /\ lastCall.at = 0

\* C9: a frame with a face region is never smoothed to none: what is
\* returned and displayed is straight, left or right with confidence above
\* 0; none is displayed only before the first frame, after a frame with no
\* region, or after a reset
C9_RegionNeverSmoothsToNone ==
    /\ (Analysed /\ lastCall.faceDetected) =>
          /\ lastCall.result.orientation \in {"straight", "left", "right"}
          /\ Positive(lastCall.result.confidence)
          /\ Displayed = lastCall.result
    /\ currentOrientation = "none" =>
          \/ lastCall.op \in {"init", "resetDetection"}
          \/ Analysed /\ ~lastCall.faceDetected

\* a face frame displayed after failed frames and a reset
C9_Witness ==
    /\ Analysed /\ lastCall.faceDetected
    /\ lastCall.before = 1
    /\ Len(detectionHistory) = 1
    /\ lastCall.at = 3 * TickMs
    /\ currentOrientation = "right"

\* C10: the confidence returned and displayed is a number in [0, 1] and the
\* orientation is one of straight, left, right, none
C10_ConfidenceInUnitInterval ==
    /\ currentOrientation \in Orientations
    /\ InUnitInterval(confidence)
    /\ lastCall.result.orientation \in Orientations
    /\ InUnitInterval(lastCall.result.confidence)
    /\ \A i \in 1 .. Len(detectionHistory) :
          /\ detectionHistory[i].orientation \in Orientations
          /\ InUnitInterval(detectionHistory[i].confidence)

\* a smoothed confidence strictly between 0 and the frame's own confidence
C10_Witness ==
    /\ Analysed /\ lastCall.faceDetected
    /\ lastCall.before >= 2
    /\ Positive(confidence)
    /\ NumLt(confidence, lastCall.inst.confidence)

\* C11: a region whose left and right bands hold equally many pixels of
\* equal mean intensity, both bands empty included, is estimated straight
C11_EqualBandsAreStraight ==
    (Analysed /\ lastCall.faceDetected) =>
      LET b == Analysis[lastCall.frame].bands
      IN  (b.leftDensity = b.rightDensity /\ b.leftIntensity = b.rightIntensity)
             => lastCall.inst.orientation = "straight"

\* two equal columns with an empty centre band, after a block whose side
\* bands are both empty
C11_Witness ==
    /\ Analysed /\ lastCall.frame = TwinColumnsFrame
    /\ Analysis[lastCall.frame].bands.leftDensity = 60
    /\ Analysis[lastCall.frame].bands.rightDensity = 60
    /\ Analysis[lastCall.frame].bands.centerDensity = 0
    /\ lastCall.before = 1
    /\ recentDetections[1].confidence = Num(1)
    /\ lastCall.inst.orientation = "straight"

\* C12: when a side band of a region is empty, densityRatio and
\* intensityRatio are defined numbers, 0 where the denominator is 0, and
\* asymmetryScore is a defined number
C12_RatiosAreGuarded ==
    (Analysed /\ lastCall.faceDetected) =>
      LET b == Analysis[lastCall.frame].bands
      IN  (b.leftDensity = 0 \/ b.rightDensity = 0) =>
             /\ IsFinite(b.densityRatio)
             /\ IsFinite(b.intensityRatio)
             /\ (b.leftDensity + b.rightDensity = 0) => b.densityRatio = Num(0)
             /\ (NumAdd(b.leftIntensity, b.rightIntensity) = Num(0))
                    => b.intensityRatio = Num(0)
             /\ IsFinite(Analysis[lastCall.frame].asymmetry)

\* C13: the history never holds more than 10 entries; a successful frame
\* appends its smoothed detection as the newest entry after the last 9 of the
\* entries before it, a failed frame leaves the history as it was, and a
\* reset empties it
C13_HistoryHoldsLastTen ==
    /\ [](Len(detectionHistory) <= 10)
    /\ [][ /\ (due' # due /\ lastCall'.op = "detectFace" /\ lastCall'.at = now'
                   /\ lastCall'.faceDetected)
               => LET old == Len(detectionHistory)
                      new == Len(detectionHistory')
                  IN  /\ new = Min2(old + 1, 10)
                      /\ detectionHistory'[new] =
                             [orientation |-> lastCall'.result.orientation,
                              confidence |-> lastCall'.result.confidence,
                              timestamp |-> now']
                      /\ \A i \in 1 .. new - 1 :
                             detectionHistory'[i] = detectionHistory[old - (new - 1) + i]
           /\ (due' # due /\ lastCall'.op = "detectFace" /\ lastCall'.at = now'
                   /\ ~lastCall'.faceDetected)
               => detectionHistory' = detectionHistory
           /\ (lastCall'.op = "resetDetection" /\ lastCall' # lastCall)
               => detectionHistory' = << >>
        ]_vars

\* the eleventh successful frame in a row: the entry of the first is dropped
C13_Witness ==
    /\ Analysed /\ lastCall.faceDetected
    /\ lastCall.at = 10 * TickMs
    /\ Len(detectionHistory) = 10
    /\ detectionHistory[1].timestamp = TickMs
    /\ detectionHistory[10].timestamp = lastCall.at

\* C14: for bytes r, g, b the score is the largest of the three heuristic
\* scores, one of 0, 0.7, 0.8, 0.9 (in tenths here) and so within [0, 1];
\* a call with the arguments of the call before it returns the same score,
\* whatever time has passed between them
C14_ScoreIsMaxOfHeuristics ==
    /\ [](Classified =>
            LET r == lastCall.args[1]
                g == lastCall.args[2]
                b == lastCall.args[3]
                scores == {RgbScore(r, g, b), YcbcrScore(r, g, b), HsvScore(r, g, b)}
            IN  /\ lastCall.score \in {0, 7, 8, 9}
                /\ lastCall.score >= 0 /\ lastCall.score <= 10
                /\ lastCall.score \in scores
                /\ \A s \in scores : lastCall.score >= s)
    /\ [][ (Classified /\ lastCall'.op = "getSkinColorConfidence"
               /\ lastCall'.args = lastCall.args)
            => lastCall'.score = lastCall.score ]_vars

\* a pixel only the HSV heuristic accepts, classified after time has passed
C14_Witness ==
    /\ Classified /\ lastCall.args = <<92, 70, 60>>
    /\ lastCall.score = 7
    /\ RgbScore(92, 70, 60) = 0 /\ YcbcrScore(92, 70, 60) = 0
    /\ lastCall.at = TickMs

RECURSIVE WindowScore(_, _, _)
\* the sum of weight times confidence over the entries of orientation o among
\* recentDetections[1 .. k], the weights taken at time t
WindowScore(o, t, k) ==
    IF k = 0 THEN Num(0)
    ELSE LET d == recentDetections[k]
         IN  IF d.orientation = o
             THEN NumAdd(WindowScore(o, t, k - 1),
                         NumMul(Rat(Weight(d, t), 1000), d.confidence))
             ELSE WindowScore(o, t, k - 1)

RECURSIVE WindowWeight(_, _)
\* the sum of the weights of recentDetections[1 .. k]
WindowWeight(t, k) ==
    IF k = 0 THEN Num(0)
    ELSE NumAdd(WindowWeight(t, k - 1), Rat(Weight(recentDetections[k], t), 1000))

\* C15: a fold returns the orientation whose accumulated score over the
\* window left after eviction is highest, with the confidence min(1, that
\* score divided by the sum of the weights of all entries of the window)
C15_WinnerOverTotalWeight ==
    Folded =>
      LET t == lastCall.at
          n == Len(recentDetections)
          best == lastCall.result.orientation
      IN  /\ \A o \in Orientations :
                NumLe(WindowScore(o, t, n), WindowScore(best, t, n))
          /\ lastCall.result.confidence =
                NumMin(NumDiv(WindowScore(best, t, n), WindowWeight(t, n)), Num(1))

\* a window of three or more entries left after an eviction, one of them of
\* an orientation that lost
C15_Witness ==
    /\ Folded /\ Evicted >= 1 /\ Len(recentDetections) >= 3
    /\ \E i \in 1 .. Len(recentDetections) :
          /\ recentDetections[i].orientation # lastCall.result.orientation
          /\ i < Len(recentDetections)
    /\ lastCall.result.orientation # lastCall.inst.orientation
    /\ NumLt(lastCall.result.confidence, Rat(1, 2))

\* C16: a region with asymmetryScore above 0.25 is estimated right when its
\* left band holds more pixels than its right band and left otherwise; with
\* asymmetryScore in [0.15, 0.25] it is estimated straight; no region is
\* estimated none
C16_MirroredDecisionRule ==
    (Analysed /\ lastCall.faceDetected) =>
      LET a == Analysis[lastCall.frame].asymmetry
          b == Analysis[lastCall.frame].bands
          o == lastCall.inst.orientation
      IN  /\ NumGt(a, Rat(25, 100)) =>
                o = (IF b.leftDensity > b.rightDensity THEN "right" ELSE "left")
          /\ (NumLe(Rat(15, 100), a) /\ NumLe(a, Rat(25, 100))) => o = "straight"
          /\ o # "none"

\* the heavier left column with both bands filled, analysed after the frame
\* whose asymmetryScore is exactly 0.25
C16_Witness ==
    /\ Analysed /\ lastCall.frame = HeavyLeftFrame
    /\ Analysis[lastCall.frame].asymmetry = Rat(19, 68)
    /\ Analysis[lastCall.frame].bands.leftDensity = 150
    /\ Analysis[lastCall.frame].bands.rightDensity = 50
    /\ lastCall.inst.orientation = "right"
    /\ lastCall.before = 1
    /\ recentDetections[1].orientation = "straight"
    /\ recentDetections[1].confidence = Rat(9, 10)
    /\ Analysis[UpperEdgeFrame].asymmetry = Rat(1, 4)

\* C17: after every fold the window is not empty and its newest entry is the
\* detection just folded in, with weight 1; the total weight is at least 1
\* and the returned confidence is a defined number, whatever the window held
\* before and however long ago the previous fold was
C17_FoldNeverDividesByZero ==
    Folded =>
      LET t == lastCall.at
          n == Len(recentDetections)
      IN  /\ n >= 1
          /\ recentDetections[n] = [orientation |-> lastCall.inst.orientation,
                                    confidence |-> lastCall.inst.confidence,
                                    timestamp |-> t]
          /\ Weight(recentDetections[n], t) = 1000
          /\ NumLe(Num(1), WindowWeight(t, n))
          /\ IsFinite(lastCall.result.confidence)

\* a fold that evicts both earlier entries
C17_Witness ==
    /\ Folded /\ lastCall.before = 2 /\ Evicted = 2
    /\ Len(recentDetections) = 1
    /\ WindowWeight(lastCall.at, 1) = Num(1)
    /\ lastCall.result.confidence = lastCall.inst.confidence

\* position of an orientation in the key order of orientationScores
Rank(o) == CHOOSE i \in 1 .. Len(OrientationOrder) : OrientationOrder[i] = o

\* C18: a fold returns, among the orientations of highest accumulated score,
\* the one that comes last in the order straight, left, right, none, so none
\* when every score is 0; it returns the same for the earlier entries of the
\* window taken in the opposite order
C18_TieGoesToLastInOrder ==
    Folded =>
      LET t == lastCall.at
          n == Len(recentDetections)
          top == {o \in Orientations :
                    \A q \in Orientations : NumLe(WindowScore(q, t, n), WindowScore(o, t, n))}
          reversed == [i \in 1 .. n - 1 |-> recentDetections[n - i]]
          again == temporalSmoothing(reversed, lastCall.inst.orientation,
                                     lastCall.inst.confidence, t)
      IN  /\ lastCall.result.orientation \in top
          /\ \A o \in top : Rank(o) <= Rank(lastCall.result.orientation)
          /\ (\A o \in Orientations : WindowScore(o, t, n) = Num(0))
                => lastCall.result.orientation = "none"
          /\ again.orientation = lastCall.result.orientation
          /\ again.confidence = lastCall.result.confidence

\* straight folded in last ties with left at a score above 0: left is returned
C18_Witness ==
    /\ Folded /\ lastCall.inst.orientation = "straight"
    /\ Len(recentDetections) = 3
    /\ recentDetections[1].orientation = "straight"
    /\ recentDetections[2].orientation = "left"
    /\ WindowScore("straight", lastCall.at, 3) = WindowScore("left", lastCall.at, 3)
    /\ Positive(WindowScore("left", lastCall.at, 3))
    /\ lastCall.result.orientation = "left"

\* C19: a reset empties the history and sets the displayed result to none
\* with confidence 0 but leaves the rolling window as it was; the first
\* successful frame after a reset is smoothed together with the entries from
\* before the reset that are less than 500 ms old
C19_ResetKeepsWindow ==
    [][ /\ (lastCall'.op = "resetDetection" /\ now' = now /\ due' = due)
            => /\ detectionHistory' = << >>
               /\ currentOrientation' = "none"
               /\ confidence' = Num(0)
               /\ recentDetections' = recentDetections
        /\ (lastCall.op = "resetDetection" /\ due' # due
               /\ lastCall'.op = "detectFace" /\ lastCall'.faceDetected)
            => LET young == SelectSeq(recentDetections,
                                      LAMBDA d : now' - d.timestamp < 500)
                   r == temporalSmoothing(young, lastCall'.inst.orientation,
                                          lastCall'.inst.confidence, now')
               IN  /\ recentDetections' =
                          Append(young, [orientation |-> lastCall'.inst.orientation,
                                         confidence |-> lastCall'.inst.confidence,
                                         timestamp |-> now'])
                   /\ lastCall'.result = [orientation |-> r.orientation,
                                          confidence |-> r.confidence]
                   /\ Displayed' = lastCall'.result
                   /\ Len(detectionHistory') = 1
      ]_vars

\* the first frame after a reset, smoothed with two entries from before it
C19_Witness ==
    /\ Analysed /\ lastCall.faceDetected /\ lastCall.at = now
    /\ Len(detectionHistory) = 1
    /\ Len(recentDetections) = 3
    /\ recentDetections[1].timestamp < recentDetections[2].timestamp
    /\ recentDetections[2].timestamp < lastCall.at
    /\ lastCall.result.confidence # lastCall.inst.confidence
    /\ lastCall.result.orientation # lastCall.inst.orientation

====
